---- MODULE Spec2Model ----
(***************************************************************************)
(* imu_tk: the static-interval segmenter (src/src/filters.cpp) and the     *)
(* CalibratedTriad transform model (src/include/imu_tk/calibration.h).     *)
(*                                                                         *)
(* Real numbers are modelled by integers: every value used here is an      *)
(* integer below 2^31, which a double represents exactly, so the integer   *)
(* arithmetic of the model is the arithmetic of the code on those values.  *)
(***************************************************************************)
EXTENDS Integers, Sequences, FiniteSets, TLC

VARIABLES
  \* ---- staticIntervalsDetector (filters.cpp) ----
  samples,           \* the interval_id() of every sample, in order
  intervals,         \* the output vector
  current_interval,  \* local: DataInterval
  previous_id,       \* local
  i,                 \* local: loop index
  pc,                \* position in staticIntervalsDetector
  \* ---- CalibratedTriad (calibration.h) ----
  mis_yz_, mis_zy_, mis_zx_, mis_xz_, mis_xy_, mis_yx_,
  s_x_, s_y_, s_z_,
  b_x_, b_y_, b_z_,
  mis_mat_, scale_mat_, bias_vec_, ms_mat_,
  files,             \* the file system: path -> the file there, or NoFile
  op,                \* the last member function called, with its arguments
  ret,               \* what that call returned
  written            \* path -> T, K, bias of the object whose save wrote it

segVars   == <<samples, intervals, current_interval, previous_id, i, pc>>
scalarVars == <<mis_yz_, mis_zy_, mis_zx_, mis_xz_, mis_xy_, mis_yx_,
                s_x_, s_y_, s_z_, b_x_, b_y_, b_z_>>
matVars   == <<mis_mat_, scale_mat_, bias_vec_, ms_mat_>>
objVars   == <<scalarVars, matVars>>
triadVars == <<objVars, files, op, ret, written>>
vars      == <<segVars, triadVars>>

(***************************************************************************)
(* Bounds                                                                  *)
(***************************************************************************)
MaxLen == 5     \* longest enumerated sample sequence
MaxId  == 2     \* interval ids are 0..MaxId, plus the sentinel

(***************************************************************************)
(* staticIntervalsDetector                                                 *)
(***************************************************************************)
Sentinel == -1

DataInterval(s, e) == [start_idx |-> s, end_idx |-> e]

Ids == (0..MaxId) \cup {Sentinel}

SeqsUpTo(S, n) == UNION { [1..k -> S] : k \in 0..n }

\* the segmentation example of the documentation, S = sentinel
ExampleIds == <<1, 1, 1, 2, 2, Sentinel, Sentinel, 3, 3, 3>>

SegInputs == SeqsUpTo(Ids, MaxLen) \cup {ExampleIds}

\* the caller's vector may hold anything on entry
DirtyIntervals == { <<>>, <<DataInterval(0, 0)>> }

\* samples[k].interval_id(), k counted from 0 as in the code
interval_id(k) == samples[k + 1]

SegInit ==
  /\ samples \in SegInputs
  /\ intervals \in DirtyIntervals
  /\ current_interval = DataInterval(-1, -1)
  /\ previous_id = -1
  /\ i = 0
  /\ pc = "entry"

\* intervals.clear() and the initialisation of the locals
Enter ==
  /\ pc = "entry"
  /\ intervals' = <<>>
  /\ current_interval' = DataInterval(-1, -1)
  /\ previous_id' = -1
  /\ i' = 0
  /\ pc' = "loop"
  /\ UNCHANGED samples

\* variant of the loop body: the extension of the run is an else-branch
LoopBody_elseif ==
  /\ pc = "loop"
  /\ i < Len(samples)
  /\ LET id == interval_id(i) IN
       IF id # -1
       THEN IF id # previous_id
            THEN /\ intervals' = IF current_interval.start_idx # -1
                                 THEN Append(intervals, current_interval)
                                 ELSE intervals
                 /\ current_interval' = [current_interval EXCEPT !.start_idx = i]
                 /\ previous_id' = id
            ELSE /\ current_interval' = [current_interval EXCEPT !.end_idx = i]
                 /\ UNCHANGED <<intervals, previous_id>>
       ELSE UNCHANGED <<intervals, current_interval, previous_id>>
  /\ i' = i + 1
  /\ UNCHANGED <<samples, pc>>

\* variant of the loop body: a sentinel sample closes the open run
LoopBody_sentinelCloses ==
  /\ pc = "loop"
  /\ i < Len(samples)
  /\ LET id == interval_id(i) IN
       IF id # -1
       THEN LET opens  == id # previous_id
                pushed == IF opens /\ current_interval.start_idx # -1
                          THEN Append(intervals, current_interval)
                          ELSE intervals
                prev1  == IF opens THEN id ELSE previous_id
                start1 == IF opens THEN i ELSE current_interval.start_idx
                end1   == IF id = prev1 THEN i ELSE current_interval.end_idx
            IN /\ intervals' = pushed
               /\ previous_id' = prev1
               /\ current_interval' = DataInterval(start1, end1)
       ELSE /\ previous_id' = -1
            /\ UNCHANGED <<intervals, current_interval>>
  /\ i' = i + 1
  /\ UNCHANGED <<samples, pc>>

\* one iteration of the for loop
LoopBody ==
  /\ pc = "loop"
  /\ i < Len(samples)
  /\ LET id == interval_id(i) IN
       IF id # -1
       THEN LET opens  == id # previous_id
                pushed == IF opens /\ current_interval.start_idx # -1
                          THEN Append(intervals, current_interval)
                          ELSE intervals
                prev1  == IF opens THEN id ELSE previous_id
                start1 == IF opens THEN i ELSE current_interval.start_idx
                end1   == IF id = prev1 THEN i ELSE current_interval.end_idx
            IN /\ intervals' = pushed
               /\ previous_id' = prev1
               /\ current_interval' = DataInterval(start1, end1)
       ELSE UNCHANGED <<intervals, current_interval, previous_id>>
  /\ i' = i + 1
  /\ UNCHANGED <<samples, pc>>

\* the loop condition fails: the unconditional push_back after the loop
LoopExit ==
  /\ pc = "loop"
  /\ ~(i < Len(samples))
  /\ intervals' = Append(intervals, current_interval)
  /\ pc' = "done"
  /\ UNCHANGED <<samples, current_interval, previous_id, i>>

SegIdle ==
  /\ samples = <<>>
  /\ intervals = <<>>
  /\ current_interval = DataInterval(-1, -1)
  /\ previous_id = -1
  /\ i = 0
  /\ pc = "idle"

(***************************************************************************)
(* Eigen: 3x3 matrices are tuples of rows, vectors are 3-tuples            *)
(***************************************************************************)
MatMul(A, B) ==
  [r \in 1..3 |-> [c \in 1..3 |->
      A[r][1] * B[1][c] + A[r][2] * B[2][c] + A[r][3] * B[3][c]]]

MatVec(A, v) ==
  [r \in 1..3 |-> A[r][1] * v[1] + A[r][2] * v[2] + A[r][3] * v[3]]

VecSub(a, b) == [r \in 1..3 |-> a[r] - b[r]]

(***************************************************************************)
(* Text files.  operator<< writes each coefficient with the stream's       *)
(* precision (6 significant digits, general notation); operator>> reads    *)
(* the decimal number back.  A token is the decimal numeral m * 10^e.      *)
(***************************************************************************)
StreamPrecision == 6

RECURSIVE Pow10(_)
Pow10(n) == IF n = 0 THEN 1 ELSE 10 * Pow10(n - 1)

RECURSIVE NumDigits(_)
NumDigits(a) == IF a < 10 THEN 1 ELSE 1 + NumDigits(a \div 10)

Abs(v) == IF v < 0 THEN -v ELSE v

\* variant: the digits beyond the precision are cut off, not rounded
FormatNumber_truncate(v) ==
  LET a == Abs(v) IN
  IF a < Pow10(StreamPrecision)
  THEN [m |-> v, e |-> 0]
  ELSE LET e == NumDigits(a) - StreamPrecision
           q == a \div Pow10(e)
       IN [m |-> (IF v < 0 THEN -q ELSE q), e |-> e]

\* os << v : %g with the stream's precision, round half to even
FormatNumber(v) ==
  LET a == Abs(v) IN
  IF a < Pow10(StreamPrecision)
  THEN [m |-> v, e |-> 0]
  ELSE LET e    == NumDigits(a) - StreamPrecision
           q    == a \div Pow10(e)
           r    == a % Pow10(e)
           half == Pow10(e) \div 2
           up   == r > half \/ (r = half /\ q % 2 = 1)
           q1   == IF up THEN q + 1 ELSE q
           m1   == IF q1 = Pow10(StreamPrecision) THEN Pow10(StreamPrecision - 1) ELSE q1
           e1   == IF q1 = Pow10(StreamPrecision) THEN e + 1 ELSE e
       IN [m |-> (IF v < 0 THEN -m1 ELSE m1), e |-> e1]

\* is >> v
ParseNumber(tok) == tok.m * Pow10(tok.e)

\* os << matrix : the rows, top to bottom, each left to right
FormatMatrix(A) == [k \in 1..9 |-> FormatNumber(A[((k - 1) \div 3) + 1][((k - 1) % 3) + 1])]

\* os << column vector : one coefficient per row
FormatVector(v) == [k \in 1..3 |-> FormatNumber(v[k])]

\* Eigen::Map< Matrix<_T,3,3,RowMajor> >(mat) over the 9 numbers read at offset off
MapRowMajor(toks, off) ==
  [r \in 1..3 |-> [c \in 1..3 |-> ParseNumber(toks[off + 3 * (r - 1) + c])]]

\* Eigen::Map< Matrix<_T,3,1> >(mat) over the 3 numbers read at offset off
MapVector(toks, off) == [r \in 1..3 |-> ParseNumber(toks[off + r])]

\* no file at a path, and a file holding the tokens toks
NoFile == [exists |-> FALSE, toks |-> <<>>]
File(toks) == [exists |-> TRUE, toks |-> toks]

\* nothing saved at a path yet
NotWritten == [T |-> <<>>, K |-> <<>>, bias |-> <<>>]

\* "calib.txt" can be created; nothing can be opened under the missing directory
Paths == {"calib.txt", "missing_dir/calib.txt"}
Writable == {"calib.txt"}

(***************************************************************************)
(* CalibratedTriad                                                         *)
(***************************************************************************)
Args(myz, mzy, mzx, mxz, mxy, myx, sx, sy, sz, bx, by, bz) ==
  [mis_yz |-> myz, mis_zy |-> mzy, mis_zx |-> mzx,
   mis_xz |-> mxz, mis_xy |-> mxy, mis_yx |-> myx,
   s_x |-> sx, s_y |-> sy, s_z |-> sz,
   b_x |-> bx, b_y |-> by, b_z |-> bz]

\* the default arguments of the constructor
DefaultArgs == Args(0, 0, 0, 0, 0, 0, 1, 1, 1, 0, 0, 0)

\* the parameter sets objects are constructed with: the default, a general
\* one, a "body frame" one, and one whose coefficients need more than
\* StreamPrecision digits
CtorArgs ==
  { DefaultArgs,
    Args(1, 2, 3, 4, 5, 6, 2, 3, 5, 1, -2, 4),
    Args(2, -1, 3, 0, 0, 0, 1, 2, 1, 0, 3, 0),
    Args(1234567, 0, 0, -1000005, 0, 0, 2, 1, 7654321, -3, 0, 1) }

ScaleVecs == { <<2, 3, 4>>, <<1, 1, 1>> }
BiasVecs  == { <<1, -1, 2>>, <<0, 0, 0>> }
RawVecs   == { <<1, 0, 0>>, <<0, 1, 0>>, <<0, 0, 1>>, <<3, -2, 1>> }
Timestamps == { 0, 7 }
TriadData(t, v) == [timestamp |-> t, data |-> v]
RawSamples == { TriadData(t, v) : t \in Timestamps, v \in RawVecs }

Call(name, arg) == [name |-> name, arg |-> arg]

\* variant: the cached product is computed as K*T
CalibratedTriad_swapped(a) ==
  /\ mis_yz_' = a.mis_yz /\ mis_zy_' = a.mis_zy /\ mis_zx_' = a.mis_zx
  /\ mis_xz_' = a.mis_xz /\ mis_xy_' = a.mis_xy /\ mis_yx_' = a.mis_yx
  /\ s_x_' = a.s_x /\ s_y_' = a.s_y /\ s_z_' = a.s_z
  /\ b_x_' = a.b_x /\ b_y_' = a.b_y /\ b_z_' = a.b_z
  /\ mis_mat_' = << << 1, -a.mis_yz, a.mis_zy >>,
                    << a.mis_xz, 1, -a.mis_zx >>,
                    << -a.mis_xy, a.mis_yx, 1 >> >>
  /\ scale_mat_' = << << a.s_x, 0, 0 >>, << 0, a.s_y, 0 >>, << 0, 0, a.s_z >> >>
  /\ ms_mat_' = MatMul(scale_mat_', mis_mat_')
  /\ bias_vec_' = << a.b_x, a.b_y, a.b_z >>

\* the constructor: the member initialisers and the body
CalibratedTriad(a) ==
  /\ mis_yz_' = a.mis_yz /\ mis_zy_' = a.mis_zy /\ mis_zx_' = a.mis_zx
  /\ mis_xz_' = a.mis_xz /\ mis_xy_' = a.mis_xy /\ mis_yx_' = a.mis_yx
  /\ s_x_' = a.s_x /\ s_y_' = a.s_y /\ s_z_' = a.s_z
  /\ b_x_' = a.b_x /\ b_y_' = a.b_y /\ b_z_' = a.b_z
  /\ mis_mat_' = << << 1, -a.mis_yz, a.mis_zy >>,
                    << a.mis_xz, 1, -a.mis_zx >>,
                    << -a.mis_xy, a.mis_yx, 1 >> >>
  /\ scale_mat_' = << << a.s_x, 0, 0 >>, << 0, a.s_y, 0 >>, << 0, 0, a.s_z >> >>
  /\ ms_mat_' = MatMul(mis_mat_', scale_mat_')
  /\ bias_vec_' = << a.b_x, a.b_y, a.b_z >>

\* the state right after construction with arguments a
Constructed(a) ==
  /\ mis_yz_ = a.mis_yz /\ mis_zy_ = a.mis_zy /\ mis_zx_ = a.mis_zx
  /\ mis_xz_ = a.mis_xz /\ mis_xy_ = a.mis_xy /\ mis_yx_ = a.mis_yx
  /\ s_x_ = a.s_x /\ s_y_ = a.s_y /\ s_z_ = a.s_z
  /\ b_x_ = a.b_x /\ b_y_ = a.b_y /\ b_z_ = a.b_z
  /\ mis_mat_ = << << 1, -a.mis_yz, a.mis_zy >>,
                   << a.mis_xz, 1, -a.mis_zx >>,
                   << -a.mis_xy, a.mis_yx, 1 >> >>
  /\ scale_mat_ = << << a.s_x, 0, 0 >>, << 0, a.s_y, 0 >>, << 0, 0, a.s_z >> >>
  /\ ms_mat_ = MatMul(mis_mat_, scale_mat_)
  /\ bias_vec_ = << a.b_x, a.b_y, a.b_z >>

TriadInit ==
  /\ \E a \in CtorArgs : Constructed(a) /\ op = Call("CalibratedTriad", a)
  /\ ret = "void"
  /\ files = [p \in Paths |-> NoFile]
  /\ written = [p \in Paths |-> NotWritten]

\* another object is constructed; the model follows the newest object
Construct(a) ==
  /\ CalibratedTriad(a)
  /\ op' = Call("CalibratedTriad", a)
  /\ ret' = "void"
  /\ UNCHANGED <<files, written>>

setScale(s_vec) ==
  /\ s_x_' = s_vec[1] /\ s_y_' = s_vec[2] /\ s_z_' = s_vec[3]
  /\ op' = Call("setScale", s_vec)
  /\ ret' = "void"
  /\ UNCHANGED <<mis_yz_, mis_zy_, mis_zx_, mis_xz_, mis_xy_, mis_yx_,
                 b_x_, b_y_, b_z_, matVars, files, written>>

setBias(b_vec) ==
  /\ b_x_' = b_vec[1] /\ b_y_' = b_vec[2] /\ b_z_' = b_vec[3]
  /\ op' = Call("setBias", b_vec)
  /\ ret' = "void"
  /\ UNCHANGED <<mis_yz_, mis_zy_, mis_zx_, mis_xz_, mis_xy_, mis_yx_,
                 s_x_, s_y_, s_z_, matVars, files, written>>

\* variant: the stream is read without testing is_open(), so that a file
\* that cannot be opened leaves mat[] = {0} to be mapped
load_unchecked(filename) ==
  /\ op' = Call("load", filename)
  /\ IF files[filename].exists
     THEN /\ mis_mat_' = MapRowMajor(files[filename].toks, 0)
          /\ scale_mat_' = MapRowMajor(files[filename].toks, 9)
          /\ bias_vec_' = MapVector(files[filename].toks, 18)
     ELSE /\ mis_mat_' = << <<0, 0, 0>>, <<0, 0, 0>>, <<0, 0, 0>> >>
          /\ scale_mat_' = << <<0, 0, 0>>, <<0, 0, 0>>, <<0, 0, 0>> >>
          /\ bias_vec_' = <<0, 0, 0>>
  /\ ret' = TRUE
  /\ UNCHANGED <<scalarVars, ms_mat_, files, written>>

\* variant: the matrices are mapped column-major
load_colmajor(filename) ==
  /\ op' = Call("load", filename)
  /\ IF files[filename].exists
     THEN /\ mis_mat_' = [r \in 1..3 |-> [c \in 1..3 |->
                             MapRowMajor(files[filename].toks, 0)[c][r]]]
          /\ scale_mat_' = [r \in 1..3 |-> [c \in 1..3 |->
                             MapRowMajor(files[filename].toks, 9)[c][r]]]
          /\ bias_vec_' = MapVector(files[filename].toks, 18)
          /\ ret' = TRUE
          /\ UNCHANGED <<scalarVars, ms_mat_>>
     ELSE /\ ret' = FALSE
          /\ UNCHANGED objVars
  /\ UNCHANGED <<files, written>>

load(filename) ==
  /\ op' = Call("load", filename)
  /\ IF files[filename].exists
     THEN /\ mis_mat_' = MapRowMajor(files[filename].toks, 0)
          /\ scale_mat_' = MapRowMajor(files[filename].toks, 9)
          /\ bias_vec_' = MapVector(files[filename].toks, 18)
          /\ ret' = TRUE
          /\ UNCHANGED <<scalarVars, ms_mat_>>
     ELSE /\ ret' = FALSE
          /\ UNCHANGED objVars
  /\ UNCHANGED <<files, written>>

save(filename) ==
  /\ op' = Call("save", filename)
  /\ IF filename \in Writable
     THEN /\ files' = [files EXCEPT ![filename] =
                 File(FormatMatrix(mis_mat_) \o FormatMatrix(scale_mat_)
                        \o FormatVector(bias_vec_))]
          /\ written' = [written EXCEPT ![filename] =
                 [T |-> mis_mat_, K |-> scale_mat_, bias |-> bias_vec_]]
          /\ ret' = TRUE
     ELSE /\ ret' = FALSE
          /\ UNCHANGED <<files, written>>
  /\ UNCHANGED objVars

normalize(raw_data) ==
  /\ op' = Call("normalize", raw_data)
  /\ ret' = MatVec(ms_mat_, raw_data)
  /\ UNCHANGED <<objVars, files, written>>

normalize_triad(raw_data) ==
  /\ op' = Call("normalize_triad", raw_data)
  /\ ret' = TriadData(raw_data.timestamp, MatVec(ms_mat_, raw_data.data))
  /\ UNCHANGED <<objVars, files, written>>

unbiasNormalize(raw_data) ==
  /\ op' = Call("unbiasNormalize", raw_data)
  /\ ret' = MatVec(ms_mat_, VecSub(raw_data, bias_vec_))
  /\ UNCHANGED <<objVars, files, written>>

unbiasNormalize_triad(raw_data) ==
  /\ op' = Call("unbiasNormalize_triad", raw_data)
  /\ ret' = TriadData(raw_data.timestamp, MatVec(ms_mat_, VecSub(raw_data.data, bias_vec_)))
  /\ UNCHANGED <<objVars, files, written>>

unbias(raw_data) ==
  /\ op' = Call("unbias", raw_data)
  /\ ret' = VecSub(raw_data, bias_vec_)
  /\ UNCHANGED <<objVars, files, written>>

unbias_triad(raw_data) ==
  /\ op' = Call("unbias_triad", raw_data)
  /\ ret' = TriadData(raw_data.timestamp, VecSub(raw_data.data, bias_vec_))
  /\ UNCHANGED <<objVars, files, written>>

TriadIdle ==
  /\ Constructed(DefaultArgs)
  /\ op = Call("CalibratedTriad", DefaultArgs)
  /\ ret = "void"
  /\ files = [p \in Paths |-> NoFile]
  /\ written = [p \in Paths |-> NotWritten]

(***************************************************************************)
(* Specifications                                                          *)
(***************************************************************************)
SegSpecInit == SegInit /\ TriadIdle

SegNext ==
  \/ Enter /\ UNCHANGED triadVars
  \/ LoopBody /\ UNCHANGED triadVars
  \/ LoopExit /\ UNCHANGED triadVars

SegSpec == SegSpecInit /\ [][SegNext]_vars

TriadSpecInit == TriadInit /\ SegIdle

TriadNext ==
  \/ \E a \in CtorArgs : Construct(a) /\ UNCHANGED segVars
  \/ \E s \in ScaleVecs : setScale(s) /\ UNCHANGED segVars
  \/ \E b \in BiasVecs : setBias(b) /\ UNCHANGED segVars
  \/ \E p \in Paths : load(p) /\ UNCHANGED segVars
  \/ \E p \in Paths : save(p) /\ UNCHANGED segVars
  \/ \E x \in RawVecs : normalize(x) /\ UNCHANGED segVars
  \/ \E x \in RawSamples : normalize_triad(x) /\ UNCHANGED segVars
  \/ \E x \in RawVecs : unbiasNormalize(x) /\ UNCHANGED segVars
  \/ \E x \in RawSamples : unbiasNormalize_triad(x) /\ UNCHANGED segVars
  \/ \E x \in RawVecs : unbias(x) /\ UNCHANGED segVars
  \/ \E x \in RawSamples : unbias_triad(x) /\ UNCHANGED segVars

TriadSpec == TriadSpecInit /\ [][TriadNext]_vars

Init == SegSpecInit \/ TriadSpecInit
Next == SegNext \/ TriadNext
Spec == Init /\ [][Next]_vars

(***************************************************************************)
(* Claims about staticIntervalsDetector (checked under SegSpec)            *)
(***************************************************************************)
Done == pc = "done"

\* positions (counted from 0) of the samples that carry a non-sentinel id
Valid == { k \in 0..(Len(samples) - 1) : interval_id(k) # Sentinel }

\* the set S of intervals as the list ordered by start_idx
RECURSIVE Ordered(_)
Ordered(S) ==
  IF S = {} THEN <<>>
  ELSE LET first == CHOOSE x \in S : \A y \in S : x.start_idx <= y.start_idx
       IN <<first>> \o Ordered(S \ {first})

\* maximal runs of consecutive samples sharing one non-sentinel id
RunStarts ==
  { k \in Valid : k = 0 \/ interval_id(k - 1) # interval_id(k) }
RunEnd(k) ==
  CHOOSE j \in k..(Len(samples) - 1) :
    /\ \A h \in k..j : interval_id(h) = interval_id(k)
    /\ (j = Len(samples) - 1 \/ interval_id(j + 1) # interval_id(k))
MaximalRuns == Ordered({ DataInterval(k, RunEnd(k)) : k \in RunStarts })

\* the same with the sentinel samples treated as absent
HasPrev(k) == \E h \in Valid : h < k
PrevValid(k) == CHOOSE h \in Valid : h < k /\ \A g \in Valid : g < k => g <= h
BridgedStarts ==
  { k \in Valid : ~HasPrev(k) \/ interval_id(PrevValid(k)) # interval_id(k) }
BridgedEnd(k) ==
  LET later == { n \in BridgedStarts : n > k }
      limit == IF later = {} THEN Len(samples)
               ELSE CHOOSE n \in later : \A n2 \in later : n <= n2
  IN PrevValid(limit)
BridgedRuns == Ordered({ DataInterval(k, BridgedEnd(k)) : k \in BridgedStarts })

\* C1: on an empty sample sequence the detector returns an empty interval
\* list (no interval with start_idx = -1 / end_idx = -1 is emitted)
C1_EmptyInputEmptyOutput ==
  (Done /\ samples = <<>>) => intervals = <<>>

\* C2: the detector returns exactly one interval per maximal run of
\* consecutive samples sharing the same non-sentinel id, in order of
\* occurrence; a run of sentinel samples contributes no interval
C2_OnePerMaximalRun ==
  Done => intervals = MaximalRuns

\* C3: the returned intervals satisfy start_idx <= end_idx, are strictly
\* ordered by start_idx, and each ends before the next one starts
C3_OrderedDisjoint ==
  Done =>
    /\ \A k \in 1..Len(intervals) : intervals[k].start_idx <= intervals[k].end_idx
    /\ \A k \in 1..(Len(intervals) - 1) :
         /\ intervals[k].start_idx < intervals[k + 1].start_idx
         /\ intervals[k].end_idx < intervals[k + 1].start_idx

C3_Witness ==
  /\ Done
  /\ Len(intervals) >= 3
  /\ \E k \in 1..Len(intervals) : intervals[k].start_idx = intervals[k].end_idx
  /\ \E k \in 1..(Len(intervals) - 1) :
       intervals[k + 1].start_idx > intervals[k].end_idx + 1

\* C9: when some sample carries a non-sentinel id, the boundaries are those
\* of the sequence with the sentinel samples removed: an interval starts at
\* each non-sentinel sample whose id differs from that of the nearest
\* preceding non-sentinel sample (or that has none), and ends at the last
\* non-sentinel sample before the next start (or before the end of input)
C9_SentinelsIgnored ==
  (Done /\ Valid # {}) => intervals = BridgedRuns

\* a run that spans sentinel samples lying between two samples of one id
C9_Witness ==
  /\ Done
  /\ Len(intervals) >= 2
  /\ \E k \in 1..Len(intervals) :
       /\ intervals[k].start_idx >= 0
       /\ \E h \in intervals[k].start_idx..intervals[k].end_idx :
            interval_id(h) = Sentinel

(***************************************************************************)
(* Claims about CalibratedTriad (checked under TriadSpec)                  *)
(***************************************************************************)
Diag(v) == << << v[1], 0, 0 >>, << 0, v[2], 0 >>, << 0, 0, v[3] >> >>

\* C4: the cached product ms_mat_ equals mis_mat_ * scale_mat_ in every
\* reachable state
C4_ProductCached ==
  ms_mat_ = MatMul(mis_mat_, scale_mat_)

\* C5: after setScale(s) the scale matrix is diag(s) and the cached product
\* is T * diag(s); after setBias(b) the bias vector is b
C5_SettersRefresh ==
  /\ op.name = "setScale" =>
       /\ scale_mat_ = Diag(op.arg)
       /\ ms_mat_ = MatMul(mis_mat_, Diag(op.arg))
  /\ op.name = "setBias" => bias_vec_ = op.arg

LoadedAfterSave ==
  /\ op.name = "load"
  /\ ret = TRUE
  /\ written[op.arg] # NotWritten

Close(loaded, saved) ==
  /\ Abs(saved) < 1000000 => loaded = saved
  /\ Abs(loaded - saved) * 200000 <= Abs(saved)

ExpectedMX(a, X) ==
  << a.s_x * X[1] - a.mis_yz * a.s_y * X[2] + a.mis_zy * a.s_z * X[3],
     a.mis_xz * a.s_x * X[1] + a.s_y * X[2] - a.mis_zx * a.s_z * X[3],
     a.mis_yx * a.s_y * X[2] - a.mis_xy * a.s_x * X[1] + a.s_z * X[3] >>

BiasOf(a) == << a.b_x, a.b_y, a.b_z >>

ExpectedResult(a, call) ==
  CASE call.name = "normalize" -> ExpectedMX(a, call.arg)
    [] call.name = "unbiasNormalize" -> ExpectedMX(a, VecSub(call.arg, BiasOf(a)))
    [] call.name = "unbias" -> VecSub(call.arg, BiasOf(a))
    [] call.name = "normalize_triad" ->
         TriadData(call.arg.timestamp, ExpectedMX(a, call.arg.data))
    [] call.name = "unbiasNormalize_triad" ->
         TriadData(call.arg.timestamp, ExpectedMX(a, VecSub(call.arg.data, BiasOf(a))))
    [] call.name = "unbias_triad" ->
         TriadData(call.arg.timestamp, VecSub(call.arg.data, BiasOf(a)))

Transforms == { "normalize", "unbiasNormalize", "unbias",
                "normalize_triad", "unbiasNormalize_triad", "unbias_triad" }

\* C7: on an object as constructed, normalize(X) = M*X, unbiasNormalize(X)
\* = M*(X - bias) and unbias(X) = X - bias for M = T*K; the timestamped
\* overloads return the same vector under the input's timestamp; on a
\* default-constructed object every transform returns its input
C7_TransformsOfConstructed ==
  [][ (op.name = "CalibratedTriad" /\ op'.name \in Transforms) =>
        /\ ret' = ExpectedResult(op.arg, op')
        /\ op.arg = DefaultArgs => ret' = op'.arg ]_vars

C7_Witness ==
  /\ op.name = "unbiasNormalize_triad"
  /\ op.arg.timestamp = 7
  /\ \E a \in CtorArgs : Constructed(a) /\ a.mis_xy # 0 /\ a.b_y # 0
  /\ ret.timestamp = 7
  /\ ret.data # op.arg.data

\* C8: load and save return false exactly when the file cannot be opened;
\* a failed load changes nothing of the object, and save never does
C8_IoFailureReported ==
  [][ /\ op'.name = "load" =>
           /\ ret' = files[op'.arg].exists
           /\ ret' = FALSE => UNCHANGED objVars
      /\ op'.name = "save" =>
           /\ ret' = (op'.arg \in Writable)
           /\ UNCHANGED objVars ]_vars

\* a load fails on a path that cannot be opened while another file exists
C8_Witness ==
  /\ op.name = "load"
  /\ ret = FALSE
  /\ \E p \in Paths : files[p].exists
  /\ ~Constructed(DefaultArgs)

\* C10: the scalar getters agree with the matrix getters
C10_AccessorsAgree ==
  /\ scale_mat_ = << << s_x_, 0, 0 >>, << 0, s_y_, 0 >>, << 0, 0, s_z_ >> >>
  /\ bias_vec_ = << b_x_, b_y_, b_z_ >>
  /\ mis_mat_[1][2] = -mis_yz_ /\ mis_mat_[1][3] = mis_zy_
  /\ mis_mat_[2][1] = mis_xz_  /\ mis_mat_[2][3] = -mis_zx_
  /\ mis_mat_[3][1] = -mis_xy_ /\ mis_mat_[3][2] = mis_yx_

====
